---------------------------- MODULE Spec2Model ----------------------------
(***************************************************************************)
(* sqlite3pp: the transaction guard, the prepared-statement lifecycle,    *)
(* command::execute_all, queries with their row iterators and the          *)
(* connection object, modelled over an abstract SQL engine.                *)
(*                                                                         *)
(* The engine (sqlite3_exec, sqlite3_prepare_v2, sqlite3_step, ...) is the *)
(* environment: its status codes are drawn nondeterministically from the   *)
(* outcomes the engine documents for each call.                            *)
(***************************************************************************)
EXTENDS Integers, Sequences, FiniteSets, TLC

(***************************************************************************)
(* Bounds of the model.                                                    *)
(***************************************************************************)
\* row values a write statement may insert are 1..MaxVal
MaxVal == 2
\* explicit commit()/rollback() calls made on one guard
MaxExplicit == 2
\* statements in one SQL text
MaxStmts == 2
\* rows in the result of one query
MaxRows == 2
\* native sessions open at one time
MaxSessions == 3
\* unfinalized statements derived from one session
MaxDerived == 2

Null == "null"

VARIABLES
    \* ---- engine side of the connection ----
    inTxn,        \* the connection has an open transaction
    table,        \* current contents of the table (set of row values)
    journal,      \* contents saved at BEGIN, restored by ROLLBACK
    directives,   \* transaction-control directives the connection received
    \* ---- transaction guard (class transaction) ----
    t_state,      \* "none" (not constructed), "alive", "dead" (destroyed)
    tr_db_,       \* transaction::db_ : "db" or Null
    fcommit_,     \* transaction::fcommit_
    \* ---- caller / process ----
    exc,          \* exception in flight: "none" or "database_error"
    process,      \* "running", "aborted" (abort()), "crashed" (null dereference)
    pre,          \* table contents observed just before the guard was constructed
    calls,        \* the calls made on the guard, with what each did and returned
    \* ---- statement / command object ----
    stmt_,        \* statement::stmt_ : 0 (null) or the handle of a native plan
    statement_,   \* statement::statement_ : the source text recorded by eprepare
    tail_,        \* statement::tail_ : NullTail or the unconsumed trailing text
    \* ---- engine side of the statements ----
    plans,        \* the live native plans: handle -> [src, binds, st]
    lastCall,     \* the last call on the statement: status, outcome, engine calls
    bindlog,      \* the first two values passed to bind since the text was prepared
    \* ---- queries and their row iterators ----
    qn,           \* per query: the number of rows r1..rn of its result
    qpos,         \* per query: k when the plan's current row is rk, else 0
    qst,          \* per query: the plan is "ready", on a "row", "done" or in "error"
    iters,        \* the query_iterator objects the caller holds: cmd_, rc_; n is
                  \* the number of steps made by an iteration that is clean
                  \* (begun on a ready query, alone on it, no step failed)
    qlast,        \* per query: the iterator that stepped it last, else "none"
    qcall,        \* the last call on a query or an iterator
    \* ---- connection object (class database) ----
    db_,          \* database::db_ : 0 (null) or a native session handle
    sessions,     \* the open native sessions: handle -> unfinalized statements
    d_state       \* "alive", "dead" (destroyed)

txnVars == <<inTxn, table, journal, directives, t_state, tr_db_, fcommit_,
             exc, process, pre, calls>>

stmtVars == <<stmt_, statement_, tail_, plans, lastCall, bindlog>>

qVars == <<qn, qpos, qst, iters, qlast, qcall>>

dbVars == <<db_, sessions, d_state>>

vars == <<txnVars, stmtVars, qVars, dbVars>>

Values == 1..MaxVal

(***************************************************************************)
(* Engine: transaction control through sqlite3_exec.                       *)
(***************************************************************************)
EngineState == [inTxn |-> inTxn, table |-> table, journal |-> journal]

\* The outcomes of sqlite3_exec(db_, sql) for a transaction-control
\* directive: the status and the connection's state afterwards.
EngineExec(sql, e) ==
    CASE sql \in {"BEGIN", "BEGIN IMMEDIATE"} ->
           IF e.inTxn
           THEN {[rc |-> "ERROR", e |-> e]}
           ELSE {[rc |-> "OK",
                  e |-> [inTxn |-> TRUE, table |-> e.table, journal |-> e.table]]}
                \cup (IF sql = "BEGIN IMMEDIATE"
                      THEN {[rc |-> "BUSY", e |-> e]}
                      ELSE {})
      [] sql = "COMMIT" ->
           IF ~e.inTxn
           THEN {[rc |-> "ERROR", e |-> e]}
           ELSE {[rc |-> "OK",
                  e |-> [inTxn |-> FALSE, table |-> e.table, journal |-> {}]],
                 [rc |-> "BUSY", e |-> e]}
      [] sql = "ROLLBACK" ->
           IF ~e.inTxn
           THEN {[rc |-> "ERROR", e |-> e]}
           ELSE {[rc |-> "OK",
                  e |-> [inTxn |-> FALSE, table |-> e.journal, journal |-> {}]],
                 [rc |-> "ERROR", e |-> e]}

\* The process dies with the connection open: the engine's recovery discards
\* the uncommitted changes of an open transaction.
ProcessDeath(e) ==
    IF e.inTxn
    THEN [inTxn |-> FALSE, table |-> e.journal, journal |-> {}]
    ELSE e

\* database::eexecute(sql) on the connection: one engine outcome applied.
SetEngine(e) ==
    /\ inTxn' = e.inTxn
    /\ table' = e.table
    /\ journal' = e.journal

(***************************************************************************)
(* transaction                                                             *)
(***************************************************************************)
\* freserve ? "BEGIN IMMEDIATE" : "BEGIN"
BeginDirective(freserve) == IF freserve THEN "BEGIN IMMEDIATE" ELSE "BEGIN"

\* fcommit_ ? "COMMIT" : "ROLLBACK"
DtorDirectiveSwapped(fcommit) == IF fcommit THEN "ROLLBACK" ELSE "COMMIT"
DtorDirective(fcommit) == IF fcommit THEN "COMMIT" ELSE "ROLLBACK"

\* if (db_) in the destructor
DtorIssuesAlways(db) == TRUE
DtorIssues(db) == db # Null

\* if (rc != SQLITE_OK) { ...; abort(); }
DtorAbortsNever(rc) == FALSE
DtorAborts(rc) == rc # "OK"

\* db_ = 0 in commit() and rollback()
ResolvedBackrefKept == "db"
ResolvedBackref == Null

Call(op, sql, rc, out, ret) ==
    [op |-> op, sql |-> sql, rc |-> rc, out |-> out, ret |-> ret]

ExplicitOps == {"commit", "rollback"}

\* transaction::transaction(db, fcommit, freserve)
Construct(fcommit, freserve) ==
    /\ t_state = "none"
    /\ process = "running"
    /\ exc = "none"
    /\ \E r \in EngineExec(BeginDirective(freserve), EngineState) :
         /\ SetEngine(r.e)
         /\ directives' = Append(directives, BeginDirective(freserve))
         \* the status of the begin directive is discarded
         /\ calls' = Append(calls, Call("transaction", BeginDirective(freserve),
                                        r.rc, "returned", "void"))
    /\ tr_db_' = "db"
    /\ fcommit_' = fcommit
    /\ t_state' = "alive"
    /\ pre' = table
    /\ UNCHANGED <<exc, process, stmtVars, qVars, dbVars>>

\* transaction::commit() / transaction::rollback(): op is the method, sql its
\* directive.  db = db_; db_ = 0; rc = db->eexecute(sql); return rc;
Resolve(op, sql) ==
    /\ t_state = "alive"
    /\ process = "running"
    /\ exc = "none"
    /\ Cardinality({i \in 1..Len(calls) : calls[i].op \in ExplicitOps}) < MaxExplicit
    /\ tr_db_' = ResolvedBackref
    /\ IF tr_db_ # Null
       THEN \E r \in EngineExec(sql, EngineState) :
              /\ SetEngine(r.e)
              /\ directives' = Append(directives, sql)
              /\ calls' = Append(calls, Call(op, sql, r.rc, "returned", r.rc))
              /\ UNCHANGED process
       ELSE \* db is a null pointer: db->eexecute dereferences it
            \/ /\ process' = "crashed"
               /\ SetEngine(ProcessDeath(EngineState))
               /\ calls' = Append(calls, Call(op, "none", "none", "crash", "none"))
               /\ UNCHANGED directives
            \/ \* the read does not trap: sqlite3_exec on an invalid handle
               /\ calls' = Append(calls, Call(op, "none", "MISUSE", "returned", "MISUSE"))
               /\ UNCHANGED <<inTxn, table, journal, directives, process>>
    /\ UNCHANGED <<t_state, fcommit_, exc, pre, stmtVars, qVars, dbVars>>

Commit == Resolve("commit", "COMMIT")

Rollback == Resolve("rollback", "ROLLBACK")

\* transaction::~transaction()
Destroy ==
    /\ t_state = "alive"
    /\ process = "running"
    /\ t_state' = "dead"
    /\ IF DtorIssues(tr_db_)
       THEN \E r \in EngineExec(DtorDirective(fcommit_), EngineState) :
              /\ directives' = Append(directives, DtorDirective(fcommit_))
              /\ IF DtorAborts(r.rc)
                 THEN /\ process' = "aborted"
                      /\ SetEngine(ProcessDeath(r.e))
                      /\ calls' = Append(calls, Call("~transaction",
                                    DtorDirective(fcommit_), r.rc, "abort", "void"))
                 ELSE /\ SetEngine(r.e)
                      /\ calls' = Append(calls, Call("~transaction",
                                    DtorDirective(fcommit_), r.rc, "returned", "void"))
                      /\ UNCHANGED process
       ELSE /\ calls' = Append(calls, Call("~transaction", "none", "none",
                                           "returned", "void"))
            /\ UNCHANGED <<inTxn, table, journal, directives, process>>
    /\ UNCHANGED <<tr_db_, fcommit_, exc, pre, stmtVars, qVars, dbVars>>

\* database::execute(sql) of a write that succeeds: inserts the row v
Write(v) ==
    /\ t_state \in {"none", "alive"}
    /\ process = "running"
    /\ exc = "none"
    /\ v \notin table
    /\ table' = table \cup {v}
    /\ UNCHANGED <<inTxn, journal, directives, t_state, tr_db_, fcommit_,
                   exc, process, pre, calls, stmtVars, qVars, dbVars>>

\* database::execute(sql) of a statement the engine rejects: throws
\* database_error; the scope of the guard is left by unwinding
FailingStatement ==
    /\ t_state = "alive"
    /\ process = "running"
    /\ exc = "none"
    /\ exc' = "database_error"
    /\ UNCHANGED <<inTxn, table, journal, directives, t_state, tr_db_, fcommit_,
                   process, pre, calls, stmtVars, qVars, dbVars>>

(***************************************************************************)
(* SQL texts.  A text is the sequence of its statements; <<>> is the empty *)
(* string.  The code never looks into a statement: the model tells them    *)
(* apart by what the engine does with them.  "P1" and "P2" are statements  *)
(* with one and with two placeholders (INSERT INTO t VALUES(?), ...),      *)
(* "BAD" is a statement the engine rejects, and "WS" is a remainder of     *)
(* white space or comment only, which can only end a text.                 *)
(***************************************************************************)
StmtKinds == {"P1", "P2", "BAD"}

\* the null char const* (tail_(0))
NullTail == <<"NULL">>

Texts ==
    UNION {
      {t \in [1..n -> StmtKinds \cup {"WS"}] :
          \A i \in 1..n : t[i] = "WS" => i = n}
      : n \in 0..MaxStmts }

\* number of placeholders of a statement (sqlite3_bind_parameter_count)
NVar(kind) ==
    CASE kind = "P1" -> 1
      [] kind = "P2" -> 2
      [] OTHER -> 0

\* the value of a parameter that was never bound (SQL NULL)
Unbound == 0

\* what sqlite3_step may return for a live plan
StepOutcomes == {"DONE", "ROW", "ERROR"}

\* the indexes bind is called with: the placeholders of P1 and P2
BindIndexes == {1, 2}

\* what the undefined call sqlite3_transfer_bindings(old, NULL) may do
UbOutcomes == {"crash", "ERROR"}

\* the placeholder names bind is called with; P1 is written with :a, P2
\* with :a and :b, no statement has :c
Names == {"a", "b", "c"}

\* the names of a statement's placeholders, by index
ParamNames(kind) ==
    CASE kind = "P1" -> <<"a">>
      [] kind = "P2" -> <<"a", "b">>
      [] OTHER -> <<>>

\* assert(idx) aborts in a build with assertions and is compiled out under
\* NDEBUG
Builds == {"assertions", "NDEBUG"}

(***************************************************************************)
(* The statement object and the engine it drives, as one record s; every  *)
(* operator below returns the record after the call, with s.rc the status *)
(* returned and s.trace the engine calls made so far in this call.        *)
(***************************************************************************)
Cur ==
    [stmt_ |-> stmt_, statement_ |-> statement_, tail_ |-> tail_,
     plans |-> plans,
     trace |-> <<>>, rc |-> "OK", crashed |-> FALSE]

Logged(s, entry, rc) ==
    [s EXCEPT !.trace = Append(@, entry), !.rc = rc]

\* sqlite3_finalize(h): destroys the plan; reports the error of its last
\* step; a handle that is not a live plan is a misuse
finish_impl(s, h) ==
    LET rc == IF h \in DOMAIN s.plans
              THEN (IF s.plans[h].st = "error" THEN "ERROR" ELSE "OK")
              ELSE "MISUSE"
        s1 == [s EXCEPT
                 !.plans = [x \in DOMAIN s.plans \ {h} |-> s.plans[x]]]
    IN  Logged(s1, [f |-> "finalize", h |-> h, src |-> <<>>, binds |-> <<>>, rc |-> rc], rc)

\* statement::efinish with stmt_ left dangling
efinishKeepsHandle(s) ==
    LET s1 == IF s.stmt_ # 0
              THEN finish_impl(s, s.stmt_)
              ELSE [s EXCEPT !.rc = "OK"]
    IN  [s1 EXCEPT !.tail_ = NullTail]

\* statement::efinish
efinish(s) ==
    LET s1 == IF s.stmt_ # 0
              THEN [finish_impl(s, s.stmt_) EXCEPT !.stmt_ = 0]
              ELSE [s EXCEPT !.rc = "OK"]
    IN  [s1 EXCEPT !.tail_ = NullTail]

\* statement::prepare_impl: sqlite3_prepare_v2(db_.db_, stmt, strlen(stmt),
\* &stmt_, &tail_) compiles the first statement of the text
prepare_impl(s, sql) ==
    LET h == CHOOSE n \in 1..(Cardinality(DOMAIN s.plans) + 1) :
                 /\ n \notin DOMAIN s.plans
                 /\ \A m \in 1..(n - 1) : m \in DOMAIN s.plans
        entry(hh, rc) == [f |-> "prepare", h |-> hh, src |-> sql, binds |-> <<>>, rc |-> rc]
    IN  IF sql = <<>> \/ Head(sql) = "WS"
        THEN \* nothing to compile: OK, a null plan, the tail at the end
             Logged([s EXCEPT !.stmt_ = 0, !.tail_ = <<>>], entry(0, "OK"), "OK")
        ELSE IF Head(sql) = "BAD"
        THEN Logged([s EXCEPT !.stmt_ = 0, !.tail_ = Tail(sql)], entry(0, "ERROR"), "ERROR")
        ELSE Logged([s EXCEPT
                       !.stmt_ = h,
                       !.tail_ = Tail(sql),
                       !.plans = (h :> [src |-> sql,
                                        binds |-> [i \in 1..NVar(Head(sql)) |-> Unbound],
                                        st |-> "ready"]) @@ @],
                    entry(h, "OK"), "OK")

\* statement::eprepare without the efinish
eprepareNoFinish(s, sql) ==
    prepare_impl([s EXCEPT !.statement_ = sql], sql)

\* statement::eprepare compiling the text whatever efinish returned
eprepareIgnoresFinish(s, sql) ==
    prepare_impl([efinish(s) EXCEPT !.statement_ = sql], sql)

\* statement::eprepare
eprepare(s, sql) ==
    LET s1 == efinish(s)
    IN  IF s1.rc # "OK"
        THEN s1
        ELSE prepare_impl([s1 EXCEPT !.statement_ = sql], sql)

\* statement::step: sqlite3_step(stmt_); o is the outcome the engine draws
step(s, o) ==
    IF s.stmt_ \notin DOMAIN s.plans
    THEN Logged(s, [f |-> "step", h |-> s.stmt_, src |-> <<>>, binds |-> <<>>,
                    rc |-> "MISUSE"], "MISUSE")
    ELSE LET p  == s.plans[s.stmt_]
             st == CASE o = "ROW" -> "row" [] o = "DONE" -> "done" [] OTHER -> "error"
         IN  Logged([s EXCEPT !.plans[s.stmt_].st = st],
                    [f |-> "step", h |-> s.stmt_, src |-> p.src, binds |-> p.binds,
                     rc |-> o], o)

\* a reset that also clears the bindings
resetClearsBindings(s) ==
    IF s.stmt_ \notin DOMAIN s.plans
    THEN [s EXCEPT !.rc = "OK"]
    ELSE [s EXCEPT !.plans[s.stmt_].st = "ready",
                   !.plans[s.stmt_].binds = [i \in DOMAIN @ |-> Unbound],
                   !.rc = IF s.plans[s.stmt_].st = "error" THEN "ERROR" ELSE "OK"]

\* sqlite3_reset(stmt_): back to ready, the bindings kept
reset(s) ==
    IF s.stmt_ \notin DOMAIN s.plans
    THEN [s EXCEPT !.rc = "OK"]
    ELSE [s EXCEPT !.plans[s.stmt_].st = "ready",
                   !.rc = IF s.plans[s.stmt_].st = "error" THEN "ERROR" ELSE "OK"]

\* sqlite3_bind_int64(stmt_, idx, value)
bind(s, idx, value) ==
    IF s.stmt_ \notin DOMAIN s.plans
    THEN [s EXCEPT !.rc = "MISUSE"]
    ELSE IF s.plans[s.stmt_].st # "ready"
    THEN [s EXCEPT !.rc = "MISUSE"]
    ELSE IF idx \notin DOMAIN s.plans[s.stmt_].binds
    THEN [s EXCEPT !.rc = "RANGE"]
    ELSE [s EXCEPT !.plans[s.stmt_].binds[idx] = value, !.rc = "OK"]

\* a name lookup that falls back to the first placeholder
bind_parameter_indexFirst(s, name) ==
    IF s.stmt_ \notin DOMAIN s.plans
    THEN 0
    ELSE LET names == ParamNames(Head(s.plans[s.stmt_].src))
         IN  IF \E i \in DOMAIN names : names[i] = name
             THEN CHOOSE i \in DOMAIN names : names[i] = name
             ELSE 1

\* sqlite3_bind_parameter_index(stmt_, name): the index of the placeholder
\* of that name, 0 when the statement has none (or is null)
bind_parameter_index(s, name) ==
    IF s.stmt_ \notin DOMAIN s.plans
    THEN 0
    ELSE LET names == ParamNames(Head(s.plans[s.stmt_].src))
         IN  IF \E i \in DOMAIN names : names[i] = name
             THEN CHOOSE i \in DOMAIN names : names[i] = name
             ELSE 0

\* command::eexecute returning the status of the step as it is
eexecuteRaw(s, o) == step(s, o)

\* command::eexecute
eexecute(s, o) ==
    LET s1 == step(s, o)
    IN  IF s1.rc = "DONE" THEN [s1 EXCEPT !.rc = "OK"] ELSE s1

\* sqlite3_transfer_bindings(from, to): moves every binding to the plan
\* `to`, index by index, when both plans have the same number of
\* placeholders; a null plan is dereferenced (undefined: ub)
transfer_bindings(s, from, to, ub) ==
    LET entry(rc) == [f |-> "transfer", h |-> to, src |-> <<>>, binds |-> <<>>, rc |-> rc]
    IN  IF from \notin DOMAIN s.plans \/ to \notin DOMAIN s.plans
        THEN IF ub = "crash"
             THEN [Logged(s, entry("none"), "none") EXCEPT !.crashed = TRUE]
             ELSE Logged(s, entry("ERROR"), "ERROR")
        ELSE IF Len(s.plans[from].binds) # Len(s.plans[to].binds)
        THEN Logged(s, entry("ERROR"), "ERROR")
        ELSE Logged([s EXCEPT
                       !.plans[to].binds = s.plans[from].binds,
                       !.plans[from].binds = [i \in DOMAIN s.plans[from].binds |-> Unbound]],
                    entry("OK"), "OK")

\* sqlite3_transfer_bindings(stmt_, old_stmt): the arguments swapped
TransferCallReversed(s, old, ub) == transfer_bindings(s, s.stmt_, old, ub)

\* sqlite3_transfer_bindings(old_stmt, stmt_)
TransferCall(s, old, ub) == transfer_bindings(s, old, s.stmt_, ub)

\* a loop that stops after the first statement
LoopContinuesNever(sql) == FALSE

\* while (strlen(sql) > 0)
LoopContinues(sql) == Len(sql) > 0

\* the loop of command::execute_all from its test on; os[i] is the outcome
\* the engine draws for the i-th step of the call
RECURSIVE ExecLoop(_, _, _, _)
ExecLoop(s, os, i, ub) ==
    LET sql == s.tail_
    IN  IF sql = NullTail
        THEN [s EXCEPT !.crashed = TRUE]
        ELSE IF ~LoopContinues(sql)
        THEN s
        ELSE LET old == s.stmt_
                 s1  == prepare_impl(s, sql)
             IN  IF s1.rc # "OK" THEN s1
                 ELSE LET s2 == TransferCall(s1, old, ub)
                      IN  IF s2.crashed \/ s2.rc # "OK" THEN s2
                          ELSE LET s3 == [finish_impl(s2, old) EXCEPT !.rc = s2.rc]
                                   s4 == eexecute(s3, os[i])
                               IN  IF s4.rc # "OK" THEN s4
                                   ELSE ExecLoop(s4, os, i + 1, ub)

\* command::execute_all
execute_all(s, os, ub) ==
    LET s1 == eexecute(s, os[1])
    IN  IF s1.rc # "OK" THEN s1 ELSE ExecLoop(s1, os, 2, ub)

(***************************************************************************)
(* The calls on a statement / command object.                              *)
(***************************************************************************)
\* THROW_ERR(ret)
Thrown(rc) == IF rc # "OK" THEN "threw" ELSE "returned"

\* the call op ends in state s with outcome out
Return(op, s, out) ==
    /\ stmt_' = s.stmt_
    /\ statement_' = s.statement_
    /\ tail_' = s.tail_
    /\ plans' = s.plans
    /\ lastCall' = [op |-> op, rc |-> s.rc, trace |-> s.trace,
                    out |-> IF s.crashed THEN "crash" ELSE out]
    /\ process' = IF s.crashed THEN "crashed" ELSE process
    /\ UNCHANGED <<inTxn, table, journal, directives, t_state, tr_db_, fcommit_,
                   exc, pre, calls, qVars, dbVars>>

\* the statement object has not been destroyed
Alive == lastCall.op # "~statement"

\* statement::prepare(stmt)
Prepare(sql) ==
    /\ process = "running"
    /\ Alive
    /\ LET s == eprepare(Cur, sql)
       IN  Return("prepare", s, Thrown(s.rc))
    /\ bindlog' = <<>>

\* statement::finish()
Finish ==
    /\ process = "running"
    /\ Alive
    /\ LET s == efinish(Cur)
       IN  Return("finish", s, Thrown(s.rc))
    /\ bindlog' = <<>>

\* statement::bind(int idx, int64_t value)
Bind(idx, value) ==
    /\ process = "running"
    /\ Alive
    /\ LET s == bind(Cur, idx, value)
       IN  Return("bind", s, Thrown(s.rc))
    /\ bindlog' = IF Len(bindlog) < 2 THEN Append(bindlog, value) ELSE bindlog

\* statement::step()
Step(o) ==
    /\ process = "running"
    /\ Alive
    /\ LET s == step(Cur, o)
       IN  Return("step", s, "returned")
    /\ UNCHANGED bindlog

\* statement::reset()
Reset ==
    /\ process = "running"
    /\ Alive
    /\ LET s == reset(Cur)
       IN  Return("reset", s, Thrown(s.rc))
    /\ UNCHANGED bindlog

\* command::execute()
Execute(o) ==
    /\ process = "running"
    /\ Alive
    /\ LET s == eexecute(Cur, o)
       IN  Return("execute", s, Thrown(s.rc))
    /\ UNCHANGED bindlog

\* the steps one execute_all can reach: the current plan and the tail's
StepsAhead == IF tail_ = NullTail THEN 1 ELSE 1 + Len(tail_)

\* command::execute_all(); the outcomes the engine is never asked for are
\* fixed, so that each run is drawn once
ExecuteAll(os, ub) ==
    /\ process = "running"
    /\ Alive
    /\ \A i \in DOMAIN os : i > StepsAhead => os[i] = "DONE"
    /\ (tail_ = NullTail \/ \A i \in DOMAIN tail_ : tail_[i] # "WS") => ub = "ERROR"
    /\ LET s == execute_all(Cur, os, ub)
       IN  Return("execute_all", s, "returned")
    /\ UNCHANGED bindlog

\* statement::bind(char const* name, int value): the index looked up,
\* assert(idx), bind(idx, value)
BindName(name, value, build) ==
    /\ process = "running"
    /\ Alive
    /\ LET idx == bind_parameter_index(Cur, name)
       IN  IF idx = 0 /\ build = "assertions"
           THEN /\ process' = "aborted"
                /\ lastCall' = [op |-> "bind_name", rc |-> "none", trace |-> <<>>,
                                out |-> "abort"]
                /\ UNCHANGED <<inTxn, table, journal, directives, t_state, tr_db_,
                               fcommit_, exc, pre, calls, stmt_, statement_, tail_,
                               plans, bindlog, qVars, dbVars>>
           ELSE /\ LET s == bind(Cur, idx, value)
                   IN  Return("bind_name", s, Thrown(s.rc))
                /\ bindlog' = IF Len(bindlog) < 2 THEN Append(bindlog, value) ELSE bindlog

\* statement::~statement(): efinish, a failure written to stderr
Destruct ==
    /\ process = "running"
    /\ Alive
    /\ LET s == efinish(Cur)
       IN  Return("~statement", s, "returned")
    /\ UNCHANGED bindlog

(***************************************************************************)
(* Queries and row iterators.  The result of query q is the rows r1..rn,   *)
(* n = qn[q]; a row is known by its position, and 0 stands for no row.     *)
(***************************************************************************)
Queries == {"q1", "q2"}

\* the iterator variables of the caller
Iters == {"i1", "i2"}

\* a variable that holds no iterator yet
NoIter == [held |-> FALSE, cmd_ |-> Null, rc_ |-> "DONE", n |-> 0,
           clean |-> FALSE, thrown |-> FALSE]

\* query_iterator::query_iterator(): cmd_(0), rc_ = SQLITE_DONE
EndIter == [held |-> TRUE, cmd_ |-> Null, rc_ |-> "DONE", n |-> 0,
            clean |-> FALSE, thrown |-> FALSE]

\* sqlite3_step on the plan of query q: a plan that is done or failed is
\* reset first and runs again from r1; then the next row, the end of the
\* result, or (fail) an error status
qstep(q, fail) ==
    LET p0 == IF qst[q] \in {"done", "error"} THEN 0 ELSE qpos[q]
    IN  IF fail
        THEN [rc |-> "ERROR", pos |-> 0, st |-> "error"]
        ELSE IF p0 < qn[q]
        THEN [rc |-> "ROW", pos |-> p0 + 1, st |-> "row"]
        ELSE [rc |-> "DONE", pos |-> 0, st |-> "done"]

\* an iterator constructed without priming the first row
set_queryNoStep(q, fail) == [rc |-> "ROW", pos |-> qpos[q], st |-> qst[q]]

\* query_iterator::set_query: rc_ = cmd_->step()
set_query(q, fail) == qstep(q, fail)

\* an iterator that never raises
IterThrowsNever(rc) == FALSE

\* if (rc_ != SQLITE_ROW && rc_ != SQLITE_DONE) throw database_error
IterThrows(rc) == rc \notin {"ROW", "DONE"}

\* a fetchone that accepts the end of the result
fetchoneThrowsOnError(rc) == rc \notin {"ROW", "DONE"}

\* query::fetchone: if (rc != SQLITE_ROW) throw database_error
fetchoneThrows(rc) == rc # "ROW"

\* an equality that also compares the queries
equalSameQuery(a, b) == a.rc_ = b.rc_ /\ a.cmd_ = b.cmd_

\* query_iterator::equal: rc_ == other.rc_
equal(a, b) == a.rc_ = b.rc_

\* query_iterator::dereference: rows(cmd_->stmt_), a cursor over the
\* current row of the query's plan
dereference(it) == qpos[it.cmd_]

\* the engine ran one step of q with result r, on behalf of iterator by
Stepped(q, r, by) ==
    /\ qpos' = [qpos EXCEPT ![q] = r.pos]
    /\ qst' = [qst EXCEPT ![q] = r.st]
    /\ qlast' = [qlast EXCEPT ![q] = by]
    /\ UNCHANGED qn

\* the iterators over q other than i are no longer alone on q
Disturbed(its, q, i) ==
    [j \in Iters |-> IF j # i /\ its[j].cmd_ = q
                     THEN [its[j] EXCEPT !.clean = FALSE, !.n = 0]
                     ELSE its[j]]

QCall(op, q, r, out) ==
    [op |-> op, q |-> q, trace |-> <<[f |-> "step", q |-> q, rc |-> r.rc]>>,
     out |-> out]

\* i = q.begin(): query_iterator(this) steps q once and throws when the
\* step failed, in which case i keeps what it held
Begin(i, q, fail) ==
    /\ process = "running"
    /\ LET r == set_query(q, fail)
       IN  /\ Stepped(q, r, IF IterThrows(r.rc) THEN "none" ELSE i)
           /\ iters' = IF IterThrows(r.rc)
                        THEN Disturbed(iters, q, "none")
                        ELSE Disturbed([iters EXCEPT ![i] =
                                 [held |-> TRUE, cmd_ |-> q, rc_ |-> r.rc,
                                  n |-> IF qst[q] = "ready" THEN 1 ELSE 0,
                                  clean |-> qst[q] = "ready", thrown |-> FALSE]], q, i)
           /\ qcall' = QCall("begin", q, r, IF IterThrows(r.rc) THEN "threw" ELSE "returned")
    /\ UNCHANGED <<txnVars, stmtVars, dbVars>>

\* i = q.end()
End(i) ==
    /\ process = "running"
    /\ iters' = [iters EXCEPT ![i] = EndIter]
    /\ qcall' = [op |-> "end", q |-> Null, trace |-> <<>>, out |-> "returned"]
    /\ UNCHANGED <<qn, qpos, qst, qlast, txnVars, stmtVars, dbVars>>

\* ++i on an iterator that differs from end(): query_iterator::increment
\* stores the status of the step in rc_, then throws when the step failed
Increment(i, fail) ==
    /\ process = "running"
    /\ iters[i].held
    /\ iters[i].cmd_ # Null
    /\ ~equal(iters[i], EndIter)
    /\ LET q == iters[i].cmd_
           r == qstep(q, fail)
       IN  /\ Stepped(q, r, i)
           /\ iters' = Disturbed([iters EXCEPT ![i] =
                            [@ EXCEPT !.rc_ = r.rc,
                                      !.n = IF iters[i].clean /\ ~IterThrows(r.rc)
                                            THEN @ + 1 ELSE 0,
                                      !.clean = @ /\ ~IterThrows(r.rc),
                                      !.thrown = IterThrows(r.rc)]], q, i)
           /\ qcall' = QCall("increment", q, r,
                             IF IterThrows(r.rc) THEN "threw" ELSE "returned")
    /\ UNCHANGED <<txnVars, stmtVars, dbVars>>

\* q.fetchone()
FetchOne(q, fail) ==
    /\ process = "running"
    /\ LET r == qstep(q, fail)
       IN  /\ Stepped(q, r, "none")
           /\ iters' = Disturbed(iters, q, "none")
           /\ qcall' = QCall("fetchone", q, r,
                             IF fetchoneThrows(r.rc) THEN "threw" ELSE "returned")
    /\ UNCHANGED <<txnVars, stmtVars, dbVars>>

\* q.reset(): sqlite3_reset puts the plan back before r1 and reports the
\* error of the last step
QReset(q) ==
    /\ process = "running"
    /\ qpos' = [qpos EXCEPT ![q] = 0]
    /\ qst' = [qst EXCEPT ![q] = "ready"]
    /\ qlast' = [qlast EXCEPT ![q] = "none"]
    /\ iters' = Disturbed(iters, q, "none")
    /\ qcall' = [op |-> "reset", q |-> q, trace |-> <<>>,
                 out |-> IF qst[q] = "error" THEN "threw" ELSE "returned"]
    /\ UNCHANGED <<qn, txnVars, stmtVars, dbVars>>

\* no query has run yet
IdleQueries ==
    /\ qpos = [q \in Queries |-> 0]
    /\ qst = [q \in Queries |-> "ready"]
    /\ iters = [i \in Iters |-> NoIter]
    /\ qlast = [q \in Queries |-> "none"]
    /\ qcall = [op |-> "query", q |-> Null, trace |-> <<>>, out |-> "returned"]

\* the queries of the other specifications: empty results, never run
NoQuery ==
    /\ qn = [q \in Queries |-> 0]
    /\ IdleQueries

\* query::query(db, stmt) for each query, with a result of 0..MaxRows rows
InitQuery ==
    /\ qn \in [Queries -> 0..MaxRows]
    /\ IdleQueries

(***************************************************************************)
(* The connection object (class database) and the native sessions of the  *)
(* engine; d is the record [db_, sessions, rc].                            *)
(***************************************************************************)
\* what sqlite3_open may return; out of memory leaves db_ null, any other
\* failure still hands out a session that has to be closed
OpenOutcomes == {"OK", "CANTOPEN", "NOMEM"}

CurDb == [db_ |-> db_, sessions |-> sessions, rc |-> "OK"]

\* sqlite3_close(h): a session with unfinalized statements stays open and
\* the call reports SQLITE_BUSY
close(d, h) ==
    IF d.sessions[h] > 0
    THEN [d EXCEPT !.rc = "BUSY"]
    ELSE [d EXCEPT !.sessions = [x \in DOMAIN d.sessions \ {h} |-> d.sessions[x]],
                   !.rc = "OK"]

\* database::disconnect
disconnect(d) ==
    IF d.db_ # 0
    THEN [close(d, d.db_) EXCEPT !.db_ = 0]
    ELSE [d EXCEPT !.rc = "OK"]

\* sqlite3_open(dbname, &db_)
open(d, o) ==
    LET h == CHOOSE n \in 1..(Cardinality(DOMAIN d.sessions) + 1) :
                 /\ n \notin DOMAIN d.sessions
                 /\ \A m \in 1..(n - 1) : m \in DOMAIN d.sessions
    IN  IF o = "NOMEM"
        THEN [d EXCEPT !.db_ = 0, !.rc = o]
        ELSE [d EXCEPT !.db_ = h, !.sessions = (h :> 0) @@ @, !.rc = o]

\* database::connect
connect(d, o) == open(disconnect(d), o)

ReturnDb(d, state) ==
    /\ db_' = d.db_
    /\ sessions' = d.sessions
    /\ d_state' = state
    /\ UNCHANGED <<txnVars, stmtVars, qVars>>

\* db.connect(dbname)
Connect(o) ==
    /\ d_state = "alive"
    /\ Cardinality(DOMAIN sessions) < MaxSessions
    /\ ReturnDb(connect(CurDb, o), "alive")

\* db.disconnect()
Disconnect ==
    /\ d_state = "alive"
    /\ ReturnDb(disconnect(CurDb), "alive")

\* database::~database
DestroyDb ==
    /\ d_state = "alive"
    /\ ReturnDb(disconnect(CurDb), "dead")

\* a statement prepared on the connection: sqlite3_prepare_v2(db_.db_, ...)
DeriveStmt ==
    /\ d_state = "alive"
    /\ db_ # 0
    /\ sessions[db_] < MaxDerived
    /\ sessions' = [sessions EXCEPT ![db_] = @ + 1]
    /\ UNCHANGED <<db_, d_state, txnVars, stmtVars, qVars>>

\* a statement of session h finalized
FinalizeStmt(h) ==
    /\ h \in DOMAIN sessions
    /\ sessions[h] > 0
    /\ sessions' = [sessions EXCEPT ![h] = @ - 1]
    /\ UNCHANGED <<db_, d_state, txnVars, stmtVars, qVars>>

\* database::database(0): db_(0), nothing opened
InitDb ==
    /\ db_ = 0
    /\ sessions = <<>>
    /\ d_state = "alive"

\* statement::statement(db, 0): nothing prepared
InitStmt ==
    /\ stmt_ = 0
    /\ statement_ = <<>>
    /\ tail_ = NullTail
    /\ plans = <<>>
    /\ lastCall = [op |-> "statement", rc |-> "OK", trace |-> <<>>, out |-> "returned"]
    /\ bindlog = <<>>

InitTxn ==
    /\ inTxn = FALSE
    /\ table = {}
    /\ journal = {}
    /\ directives = <<>>
    /\ t_state = "none"
    /\ tr_db_ = Null
    /\ fcommit_ = FALSE
    /\ exc = "none"
    /\ process = "running"
    /\ pre = {}
    /\ calls = <<>>

Init == InitTxn /\ InitStmt /\ NoQuery /\ InitDb

NextTxn ==
    \/ \E fcommit \in BOOLEAN, freserve \in BOOLEAN : Construct(fcommit, freserve)
    \/ Commit
    \/ Rollback
    \/ Destroy
    \/ \E v \in Values : Write(v)
    \/ FailingStatement

SpecTxn == Init /\ [][NextTxn]_vars

\* the calls the statement claims range over (execute_all excluded)
NextStmt ==
    \/ \E sql \in Texts : Prepare(sql)
    \/ Finish
    \/ \E idx \in BindIndexes, value \in Values : Bind(idx, value)
    \/ \E o \in StepOutcomes : Step(o)
    \/ Reset
    \/ \E o \in StepOutcomes : Execute(o)

SpecStmt == Init /\ [][NextStmt]_vars

\* a statement prepared, bound by name, stepped and reset
NextNamed ==
    \/ \E sql \in Texts : Prepare(sql)
    \/ \E name \in Names, value \in Values, build \in Builds : BindName(name, value, build)
    \/ \E o \in StepOutcomes : Step(o)
    \/ Reset

SpecNamed == Init /\ [][NextNamed]_vars

\* command::command(db, stmt): statement(db, stmt) prepares the text and
\* throws when the engine rejects it, so a command that exists was prepared
InitCmd ==
    /\ InitTxn
    /\ NoQuery
    /\ InitDb
    /\ \E sql \in Texts :
         LET s == eprepare([stmt_ |-> 0, statement_ |-> sql, tail_ |-> NullTail,
                            plans |-> <<>>, trace |-> <<>>, rc |-> "OK",
                            crashed |-> FALSE], sql)
         IN  /\ s.rc = "OK"
             /\ stmt_ = s.stmt_
             /\ statement_ = s.statement_
             /\ tail_ = s.tail_
             /\ plans = s.plans
             /\ lastCall = [op |-> "command", rc |-> s.rc, trace |-> s.trace,
                            out |-> "returned"]
    /\ bindlog = <<>>

\* a command: values bound, execute_all run, reset
NextCmd ==
    \/ \E idx \in BindIndexes, value \in Values : Bind(idx, value)
    \/ Reset
    \/ \E os \in [1..MaxStmts -> StepOutcomes], ub \in UbOutcomes : ExecuteAll(os, ub)
    \/ Destruct

SpecCmd == InitCmd /\ [][NextCmd]_vars

\* two queries with results of 0..MaxRows rows, nothing stepped yet
InitQ == InitTxn /\ InitStmt /\ InitQuery /\ InitDb

NextQuery ==
    \/ \E i \in Iters, q \in Queries, fail \in BOOLEAN : Begin(i, q, fail)
    \/ \E i \in Iters : End(i)
    \/ \E i \in Iters, fail \in BOOLEAN : Increment(i, fail)
    \/ \E q \in Queries, fail \in BOOLEAN : FetchOne(q, fail)
    \/ \E q \in Queries : QReset(q)

SpecQuery == InitQ /\ [][NextQuery]_vars

NextDb ==
    \/ \E o \in OpenOutcomes : Connect(o)
    \/ Disconnect
    \/ DestroyDb
    \/ DeriveStmt
    \/ \E h \in 1..MaxSessions : FinalizeStmt(h)

SpecDb == Init /\ [][NextDb]_vars

(***************************************************************************)
(* Claims about the transaction guard (checked under SpecTxn).             *)
(***************************************************************************)
ExplicitCalls == {i \in 1..Len(calls) : calls[i].op \in ExplicitOps}

IsResolution(d) == d \in {"COMMIT", "ROLLBACK"}

Resolutions == SelectSeq(directives, IsResolution)

\* the destructor's entry, once the guard is destroyed
DtorCall == calls[Len(calls)]

\* C1: over a lifetime of construction, at most one explicit commit() or
\* rollback(), and destruction, exactly one COMMIT/ROLLBACK reaches the
\* connection, and the destructor issues one iff no explicit call was made,
\* whatever status the explicit call returned.
C1_ExactlyOneResolution ==
    (t_state = "dead" /\ Cardinality(ExplicitCalls) <= 1) =>
        /\ Len(Resolutions) = 1
        /\ (DtorCall.sql # "none") <=> (ExplicitCalls = {})

\* an explicit call that returned a failure status, then destruction
C1_Witness ==
    /\ t_state = "dead"
    /\ Cardinality(ExplicitCalls) = 1
    /\ \E i \in ExplicitCalls : calls[i].ret # "OK"
    /\ DtorCall.sql = "none"

\* C2 as stated: whenever the lifetime ends without the process aborting,
\* the transaction is no longer open, also after an explicit commit() that
\* returned a failure status.
C2_Original ==
    (t_state = "dead" /\ process = "running") => ~inTxn

\* C2 amended: whenever the lifetime ends without the process aborting and
\* no explicit commit()/rollback() returned a failure status, the
\* transaction is no longer open.
C2_ResolvedUnlessExplicitFailure ==
    (/\ t_state = "dead"
     /\ process = "running"
     /\ \A i \in ExplicitCalls : calls[i].ret = "OK") => ~inTxn

\* a transaction that was begun and resolved by the destructor alone
C2_Witness ==
    /\ t_state = "dead"
    /\ process = "running"
    /\ calls[1].rc = "OK"
    /\ ExplicitCalls = {}
    /\ ~inTxn

\* C3 as stated: once the guard has been resolved by commit() or rollback()
\* its back-reference is null, and a further commit() or rollback() issues
\* no directive and does not fault.
C3_Original ==
    /\ (ExplicitCalls # {} => tr_db_ = Null)
    /\ \A i \in ExplicitCalls :
         (\E j \in ExplicitCalls : j < i) =>
             /\ calls[i].sql = "none"
             /\ calls[i].out = "returned"
             /\ process # "crashed"

\* C4: a guard destroyed while unresolved issues COMMIT when its disposition
\* is commit and ROLLBACK otherwise; a non-OK status aborts the process; the
\* destructor never throws and never returns normally after a failed
\* implicit resolution.
C4_ImplicitResolution ==
    (t_state = "dead" /\ tr_db_ # Null) =>
        /\ DtorCall.op = "~transaction"
        /\ DtorCall.sql = (IF fcommit_ THEN "COMMIT" ELSE "ROLLBACK")
        /\ directives[Len(directives)] = DtorCall.sql
        /\ DtorCall.out \in {"returned", "abort"}
        /\ (DtorCall.rc # "OK") <=> (DtorCall.out = "abort")
        /\ (DtorCall.out = "abort") <=> (process = "aborted")

\* an implicit COMMIT that failed and aborted the process
C4_Witness ==
    /\ t_state = "dead"
    /\ tr_db_ # Null
    /\ fcommit_
    /\ DtorCall.sql = "COMMIT"
    /\ DtorCall.rc # "OK"
    /\ process = "aborted"

\* C5 as stated: rollback disposition, successful writes, a statement that
\* throws, destruction without explicit resolution: a ROLLBACK is issued and
\* the table equals its contents before the guard was constructed.
C5_Original ==
    (/\ t_state = "dead"
     /\ ~fcommit_
     /\ exc = "database_error"
     /\ ExplicitCalls = {}) =>
        /\ \E i \in 1..Len(directives) : directives[i] = "ROLLBACK"
        /\ table = pre

\* C6 as stated: when the engine rejects the begin directive, the failure is
\* surfaced to the caller at construction time (thrown or returned).
C6_Original ==
    \A i \in 1..Len(calls) :
        (calls[i].op = "transaction" /\ calls[i].rc # "OK") =>
            \/ calls[i].out = "threw"
            \/ calls[i].ret = calls[i].rc


(***************************************************************************)
(* Claims about the statement lifecycle (SpecStmt) and execute_all         *)
(* (SpecCmd).                                                              *)
(***************************************************************************)
IsStep(e) == e.f = "step"

\* the steps of the last call, in the order the engine ran them
StepsRun == SelectSeq(lastCall.trace, IsStep)

\* C7: finish is idempotent: it finalizes the native plan exactly once when
\* one is held; with no plan held it makes no engine call and reports
\* success; after it the statement has no plan and no unconsumed tail, as a
\* statement that was never prepared.
C7_FinishIdempotent ==
    [][Finish =>
         /\ stmt_' = 0
         /\ tail_' = NullTail
         /\ IF stmt_ # 0
            THEN /\ Len(lastCall'.trace) = 1
                 /\ lastCall'.trace[1].f = "finalize"
                 /\ lastCall'.trace[1].h = stmt_
                 /\ lastCall'.trace[1].rc # "MISUSE"
                 /\ stmt_ \notin DOMAIN plans'
            ELSE /\ lastCall'.trace = <<>>
                 /\ lastCall'.rc = "OK"
                 /\ lastCall'.out = "returned"
                 /\ plans' = plans]_vars

\* a prepared statement just finished: one finalize, no plan, no tail
C7_Witness ==
    /\ lastCall.op = "finish"
    /\ Len(lastCall.trace) = 1
    /\ statement_ # <<>>
    /\ stmt_ = 0
    /\ tail_ = NullTail
    /\ plans = <<>>

\* C8: after any sequence of prepare, finish, bind, step, reset and execute
\* the handle is null and no plan is live, or it refers to the one live
\* plan; a prepare issued while a plan is held finalizes that plan before
\* it compiles the new text.
C8_AtMostOnePlan ==
    [][/\ (stmt_' = 0 => DOMAIN plans' = {})
       /\ (stmt_' # 0 => DOMAIN plans' = {stmt_'})
       /\ (lastCall'.op = "prepare" /\ stmt_ # 0) =>
             /\ lastCall'.trace[1].f = "finalize"
             /\ lastCall'.trace[1].h = stmt_
             /\ lastCall'.trace[1].rc # "MISUSE"
             /\ \A i \in 1..Len(lastCall'.trace) :
                   lastCall'.trace[i].f = "prepare" => i > 1]_vars

\* a text prepared while a plan was held: finalize, then compile
C8_Witness ==
    /\ lastCall.op = "prepare"
    /\ Len(lastCall.trace) = 2
    /\ lastCall.trace[1].f = "finalize"
    /\ lastCall.trace[2].f = "prepare"
    /\ stmt_ # 0

\* C9: execute_all runs the statements one at a time in textual order and
\* returns success exactly when the statement just executed leaves no
\* trailing text; when preparing, transferring the bindings or executing
\* fails, that call is the last one made and its status is the one returned.
C9_ExecuteAllLoop ==
    (lastCall.op = "execute_all" /\ lastCall.out # "crash") =>
        LET T    == lastCall.trace
            last == T[Len(T)]
        IN  /\ Len(T) >= 1
            /\ T[1].f = "step"
            /\ \A i \in 1..(Len(StepsRun) - 1) :
                  StepsRun[i + 1].src = Tail(StepsRun[i].src)
            /\ \A i \in 1..(Len(T) - 1) :
                  \/ T[i].f = "finalize"
                  \/ T[i].f = "step" /\ T[i].rc = "DONE"
                  \/ T[i].f \in {"prepare", "transfer"} /\ T[i].rc = "OK"
            /\ (lastCall.rc = "OK") <=>
                  (last.f = "step" /\ last.rc = "DONE" /\ Tail(last.src) = <<>>)
            /\ (lastCall.rc = "OK") => tail_ = <<>>
            /\ (lastCall.rc # "OK") => lastCall.rc = last.rc

\* the second statement of a text failed in execution
C9_Witness ==
    /\ lastCall.op = "execute_all"
    /\ lastCall.rc = "ERROR"
    /\ Len(StepsRun) = 2
    /\ lastCall.trace[Len(lastCall.trace)].f = "step"
    /\ Len(statement_) = 2

\* C10 as stated: on a text of two single-placeholder inserts with two
\* values bound, the first insert uses the first bound value and the second
\* insert the second one.
C10_Original ==
    (/\ lastCall.op = "execute_all"
     /\ lastCall.rc = "OK"
     /\ statement_ = <<"P1", "P1">>
     /\ Len(StepsRun) = 2
     /\ Len(bindlog) = 2) =>
        /\ StepsRun[1].binds[1] = bindlog[1]
        /\ StepsRun[2].binds[1] = bindlog[2]

\* C10 amended: on a text of two single-placeholder inserts, an execute_all
\* that starts at the first insert and succeeds executes both inserts, in
\* order, and the second uses the same value at index 1 as the first: the
\* bindings are transferred index by index.
C10_SameValueByIndex ==
    (/\ lastCall.op = "execute_all"
     /\ lastCall.rc = "OK"
     /\ statement_ = <<"P1", "P1">>
     /\ StepsRun[1].src = statement_) =>
        /\ Len(StepsRun) = 2
        /\ StepsRun[2].src = <<"P1">>
        /\ DOMAIN StepsRun[1].binds = {1}
        /\ StepsRun[2].binds = StepsRun[1].binds
        /\ plans[stmt_].binds = StepsRun[1].binds

\* two values bound, both inserts executed with a bound value
C10_Witness ==
    /\ lastCall.op = "execute_all"
    /\ lastCall.rc = "OK"
    /\ statement_ = <<"P1", "P1">>
    /\ Len(StepsRun) = 2
    /\ bindlog = <<1, 2>>
    /\ StepsRun[1].binds[1] # Unbound

(***************************************************************************)
(* Claims about queries and row iterators (SpecQuery).                     *)
(***************************************************************************)
\* C11: an iterator obtained from begin() on a query that was ready, and
\* alone in stepping it since, is after its k-th step positioned on rk, for
\* k = 1..n in that order; it does not equal end() while k <= n, and after
\* the step past rn (the first step when n = 0) it equals end().
C11_IterationInOrder ==
    \A i \in Iters :
        (iters[i].held /\ iters[i].clean) =>
            LET it == iters[i]
                n  == qn[it.cmd_]
                k  == it.n
            IN  /\ k \in 1..(n + 1)
                /\ (k <= n) => /\ it.rc_ = "ROW"
                               /\ dereference(it) = k
                               /\ ~equal(it, EndIter)
                /\ (k = n + 1) => /\ it.rc_ = "DONE"
                                  /\ equal(it, EndIter)

\* an iteration over two rows that has just advanced past r2
C11_Witness ==
    \E i \in Iters :
        /\ iters[i].held
        /\ iters[i].clean
        /\ qn[iters[i].cmd_] = 2
        /\ iters[i].n = 3
        /\ qcall.op = "increment"
        /\ equal(iters[i], EndIter)

\* C12: fetchone steps the statement exactly once; it raises the engine
\* error whenever that step returned anything but ROW, DONE included, and
\* returns a cursor (over the row just produced) only when it returned ROW.
C12_FetchOneNeedsRow ==
    (qcall.op = "fetchone") =>
        /\ Len(qcall.trace) = 1
        /\ qcall.trace[1].f = "step"
        /\ (qcall.out = "threw") <=> (qcall.trace[1].rc # "ROW")
        /\ (qcall.out = "returned") <=> (qcall.trace[1].rc = "ROW")
        /\ (qcall.out = "returned") =>
               /\ qpos[qcall.q] >= 1
               /\ qst[qcall.q] = "row"

\* fetchone on a result that has no further row: the step reports DONE
C12_Witness ==
    /\ qcall.op = "fetchone"
    /\ qcall.trace[1].rc = "DONE"
    /\ qcall.out = "threw"

\* C17: two iterators compare equal exactly when their stored statuses are
\* the same: both at completion, or both on a row, whatever the rows and
\* the queries; an iterator on a row never equals the end sentinel.
C17_EqualByStatus ==
    \A i \in Iters, j \in Iters :
        (iters[i].held /\ iters[j].held) =>
            /\ equal(iters[i], iters[j]) <=> (iters[i].rc_ = iters[j].rc_)
            /\ (iters[i].rc_ = "DONE") => equal(iters[i], EndIter)
            /\ (iters[i].rc_ = "ROW") => ~equal(iters[i], EndIter)

\* two iterators on different rows of different queries that compare equal
C17_Witness ==
    /\ iters["i1"].held
    /\ iters["i2"].held
    /\ iters["i1"].rc_ = "ROW"
    /\ iters["i2"].rc_ = "ROW"
    /\ iters["i1"].cmd_ # iters["i2"].cmd_
    /\ qlast[iters["i1"].cmd_] = "i1"
    /\ qlast[iters["i2"].cmd_] = "i2"
    /\ dereference(iters["i1"]) # dereference(iters["i2"])
    /\ equal(iters["i1"], iters["i2"])

\* the iterator is positioned on a valid current row of its query
OnRow(it) ==
    /\ it.cmd_ # Null
    /\ qst[it.cmd_] = "row"
    /\ dereference(it) >= 1

\* the iterator made the last step of its query
SteppedLast(i) == iters[i].cmd_ # Null /\ qlast[iters[i].cmd_] = i

\* C19 as stated: every iterator the caller holds stores ROW or DONE, also
\* after an advance that raised; hence one that made the last step of its
\* query differs from end() exactly when it is on a valid current row.
C19_Original ==
    \A i \in Iters :
        iters[i].held =>
            /\ iters[i].rc_ \in {"ROW", "DONE"}
            /\ SteppedLast(i) => (~equal(iters[i], EndIter) <=> OnRow(iters[i]))

\* C19: an iterator the caller holds stores ROW or DONE unless its last
\* advance raised; then it stores the error status and differs from end()
\* without being on a row.  An iterator that made the last step of its
\* query and whose last advance did not raise differs from end() exactly
\* when it is on a valid current row.
C19_StatusUnlessThrown ==
    \A i \in Iters :
        iters[i].held =>
            /\ (iters[i].rc_ \in {"ROW", "DONE"}) <=> ~iters[i].thrown
            /\ iters[i].thrown =>
                   /\ iters[i].rc_ = "ERROR"
                   /\ ~equal(iters[i], EndIter)
            /\ SteppedLast(i) =>
                   /\ ~iters[i].thrown =>
                          (~equal(iters[i], EndIter) <=> OnRow(iters[i]))
                   /\ iters[i].thrown => ~OnRow(iters[i])

\* an iterator whose advance has just raised
C19_Witness ==
    \E i \in Iters :
        /\ iters[i].held
        /\ iters[i].thrown
        /\ qcall.op = "increment"
        /\ qcall.out = "threw"
        /\ SteppedLast(i)
        /\ ~OnRow(iters[i])
        /\ ~equal(iters[i], EndIter)

(***************************************************************************)
(* Claims about execute, bind and reset and failed prepares (SpecStmt) and *)
(* about binds by name (SpecNamed).                                        *)
(***************************************************************************)
\* C13: execute steps the statement exactly once; eexecute returns OK
\* exactly when that step reported DONE and returns every other status
\* (ROW or an error) as it is, and execute then raises the engine error.
C13_ExecuteOnce ==
    (lastCall.op = "execute") =>
        /\ Len(lastCall.trace) = 1
        /\ Len(StepsRun) = 1
        /\ (lastCall.rc = "OK") <=> (StepsRun[1].rc = "DONE")
        /\ (lastCall.out = "returned") <=> (StepsRun[1].rc = "DONE")
        /\ (StepsRun[1].rc # "DONE") =>
               /\ lastCall.rc = StepsRun[1].rc
               /\ lastCall.out = "threw"

\* an execute whose step produced a row
C13_Witness ==
    /\ lastCall.op = "execute"
    /\ lastCall.rc = "ROW"
    /\ lastCall.out = "threw"

\* the bound values of the plan the statement holds
Bound(ps, h) == ps[h].binds

\* C14: reset puts the plan back to ready and leaves every bound value as
\* it was; a bind on a ready plan at one of its indexes succeeds and
\* replaces the value at that index only, a bind that fails changes none;
\* a step or an execute runs with the values bound at that moment and
\* leaves them; so each execution uses, index by index, the value of the
\* last bind that succeeded there.
C14_BindsPersist ==
    [][(stmt_ \in DOMAIN plans) =>
         /\ (lastCall'.op = "reset" /\ Reset) =>
               /\ Bound(plans', stmt_) = Bound(plans, stmt_)
               /\ plans'[stmt_].st = "ready"
         /\ \A idx \in BindIndexes, value \in Values :
               (lastCall'.op = "bind" /\ Bind(idx, value)) =>
                  /\ (plans[stmt_].st = "ready" /\ idx \in DOMAIN Bound(plans, stmt_))
                        <=> (lastCall'.rc = "OK")
                  /\ Bound(plans', stmt_) =
                        IF lastCall'.rc = "OK"
                        THEN [Bound(plans, stmt_) EXCEPT ![idx] = value]
                        ELSE Bound(plans, stmt_)
         /\ \A o \in StepOutcomes :
               (lastCall'.op \in {"execute", "step"} /\ (Execute(o) \/ Step(o))) =>
                  /\ lastCall'.trace[1].binds = Bound(plans, stmt_)
                  /\ Bound(plans', stmt_) = Bound(plans, stmt_)]_vars

\* a statement with one placeholder executed with the second of two
\* different values passed to bind
C14_Witness ==
    /\ lastCall.op = "execute"
    /\ stmt_ \in DOMAIN plans
    /\ Len(Bound(plans, stmt_)) = 1
    /\ Len(bindlog) = 2
    /\ bindlog[1] # bindlog[2]
    /\ lastCall.trace[1].binds = <<bindlog[2]>>

\* the statement has no placeholder of that name
NoSuchName(name) ==
    \/ stmt_ \notin DOMAIN plans
    \/ \A i \in DOMAIN ParamNames(Head(plans[stmt_].src)) :
          ParamNames(Head(plans[stmt_].src))[i] # name

\* C15: a bind by a name the statement has no placeholder for does not
\* return normally (the process aborts on the assertion, or, where the
\* assertion is compiled out, the engine rejects index 0 and the bind
\* raises) and binds nothing: no plan's bound values change.
C15_UnknownNameBindsNothing ==
    [][\A name \in Names, value \in Values, build \in Builds :
          (lastCall'.op = "bind_name" /\ NoSuchName(name)
             /\ BindName(name, value, build)) =>
             /\ plans' = plans
             /\ lastCall'.out \in {"abort", "threw"}
             /\ lastCall'.rc # "OK"]_vars

\* the name c bound on a ready plan in a build without assertions: the
\* engine rejects index 0
C15_Witness ==
    /\ lastCall.op = "bind_name"
    /\ lastCall.rc = "RANGE"
    /\ lastCall.out = "threw"
    /\ stmt_ \in DOMAIN plans

\* C20: a prepare that fails leaves the handle null and no plan live; when
\* it failed in finalizing the previous plan, nothing was compiled and the
\* recorded text is the one of before; when the engine rejected the new
\* text, the previous plan had been finalized first.
C20_FailedPrepare ==
    [][(lastCall'.op = "prepare" /\ lastCall'.rc # "OK") =>
          /\ stmt_' = 0
          /\ DOMAIN plans' = {}
          /\ Len(lastCall'.trace) >= 1
          /\ LET tr == lastCall'.trace
             IN  /\ (tr[1].f = "finalize" /\ tr[1].rc # "OK") =>
                       /\ Len(tr) = 1
                       /\ statement_' = statement_
                 /\ (tr[Len(tr)].f = "prepare") =>
                       /\ tr[Len(tr)].rc # "OK"
                       /\ tr[Len(tr)].h = 0
                       /\ statement_' = tr[Len(tr)].src
                       /\ (stmt_ # 0) =>
                             /\ Len(tr) = 2
                             /\ tr[1].f = "finalize"
                             /\ tr[1].h = stmt_
                             /\ tr[1].rc = "OK"]_vars

\* a prepare that failed in finalizing the plan of a statement whose last
\* step had failed
C20_Witness ==
    /\ lastCall.op = "prepare"
    /\ lastCall.rc # "OK"
    /\ Len(lastCall.trace) = 1
    /\ lastCall.trace[1].f = "finalize"
    /\ statement_ # <<>>
    /\ stmt_ = 0

(***************************************************************************)
(* Claims about the plans of a command (SpecCmd) and the sessions of a     *)
(* connection (SpecDb).                                                    *)
(***************************************************************************)
\* C18 as stated: once the command object has been destroyed every native
\* plan compiled for it has been finalized, whatever exit execute_all took.
C18_Original ==
    (lastCall.op = "~statement") => DOMAIN plans = {}

\* C16 as stated: at most one native session opened by the connection
\* object is open at any time, also after a connect whose close of the old
\* session failed because statements of it were unfinalized.
C16_Original ==
    Cardinality(DOMAIN sessions) <= 1
=============================================================================
